---------------------------- MODULE Spec2Model ----------------------------
(***************************************************************************)
(* A state-machine model of the realtime console's session orchestrator   *)
(* (src/src/pages/ConsolePage.tsx, src/src/utils/on-tool.ts and the       *)
(* memory slice in src/proxy-server/proxy.ts).                            *)
(*                                                                         *)
(* The page is single-threaded: a handler runs without interleaving up to *)
(* its next `await`.  Every action below is one such segment of a handler *)
(* (the whole handler when it awaits nothing).                            *)
(***************************************************************************)
EXTENDS Integers, Sequences, FiniteSets, TLC

(***************************************************************************)
(* JavaScript values, as far as the handlers distinguish them.            *)
(***************************************************************************)
Undefined == "undefined"

\* A value: its tag t, for an object its shape, and its message/payload.
Val(t, shape, msg) == [t |-> t, shape |-> shape, msg |-> msg]
JsUndefined == Val("undefined", "", "")
JsNull == Val("null", "", "")
Err(msg) == Val("Error", "", msg)
Obj(shape, msg) == Val("object", shape, msg)
Str(s) == Val("string", "", s)

\* How a handler (or a promise) ends.
Return(v) == [how |-> "return", val |-> v]
Throw(v) == [how |-> "throw", val |-> v]
Resolved(v) == [settle |-> "resolved", val |-> v]
Rejected(v) == [settle |-> "rejected", val |-> v]

\* `error.message` of a caught value that is neither null nor undefined.
MessageOf(v) ==
    IF v.t = "Error" THEN v.msg
    ELSE IF v.t = "object" /\ v.shape = "ok_false" THEN v.msg
    ELSE Undefined

\* A guard that replaces only undefined, not null, by the default payload.
_onToolUndefinedOnly(h) ==
    IF h.how = "return"
    THEN IF h.val.t = "undefined"
         THEN Resolved(Obj("success_true", ""))
         ELSE Resolved(h.val)
    ELSE IF h.val.t \in {"undefined", "null"}
         THEN Rejected(Err("TypeError: Cannot read properties of null (reading 'message')"))
         ELSE Resolved(Obj("error", MessageOf(h.val)))

\* A guard whose default payload is {ok: true}.
_onToolDefaultOk(h) ==
    IF h.how = "return"
    THEN IF h.val.t \in {"undefined", "null"}
         THEN Resolved(Obj("ok_true", ""))
         ELSE Resolved(h.val)
    ELSE IF h.val.t \in {"undefined", "null"}
         THEN Rejected(Err("TypeError: Cannot read properties of null (reading 'message')"))
         ELSE Resolved(Obj("error", MessageOf(h.val)))

\* _onTool(args, handler), given how handler(args) ended (a synchronous throw
\* and a rejected promise are both caught by the try around the await):
\*   try { return (await handler(args)) ?? { success: true }; }
\*   catch (error) { return { error: error.message }; }
\* Reading .message of null or undefined throws a TypeError inside the catch
\* block, which rejects the promise _onTool returns.
_onTool(h) ==
    IF h.how = "return"
    THEN IF h.val.t \in {"undefined", "null"}
         THEN Resolved(Obj("success_true", ""))
         ELSE Resolved(h.val)
    ELSE IF h.val.t \in {"undefined", "null"}
         THEN Rejected(Err("TypeError: Cannot read properties of null (reading 'message')"))
         ELSE Resolved(Obj("error", MessageOf(h.val)))

(***************************************************************************)
(* The tools registered with the transport.                               *)
(***************************************************************************)
MemKeys == {"name", "city"}
MemVals == {"Alex"}

\* The arguments value the transport hands to a tool handler: JSON.parse of
\* the agent's arguments string, so an object, null or a primitive.  key and
\* value are what destructuring finds (undefined when the property is
\* missing or the value is a primitive).
ToolArgs ==
    { [t |-> "null", key |-> Undefined, value |-> Undefined],
      [t |-> "number", key |-> Undefined, value |-> Undefined] }
    \cup [t : {"object"}, key : MemKeys \cup {Undefined},
          value : MemVals \cup {Undefined}]

WrappedTools ==
    {"set_memory", "remove_memory", "get_time", "show_location", "show_info",
     "get_weather", "generate_image", "search_related_topics"}
UnwrappedTools == {"wikipedia_search", "webpage_scrape"}
MemoryTools == {"set_memory", "remove_memory"}
ToolNames == WrappedTools \cup UnwrappedTools
NetworkTools ==
    {"get_weather", "generate_image", "search_related_topics",
     "wikipedia_search", "webpage_scrape"}

\* What the awaited provider call turns out to be:
\*   fetch_rejects  the request itself fails (network error);
\*   http_error     a non-success status with a plain-text body;
\*   bad_json       a success status whose body is text but not JSON;
\*   no_body        a success status with an empty body;
\*   blank          a success status whose body is white space only;
\*   empty          a success status whose body is JSON holding none of the
\*                  consumed fields;
\*   ok             a success status with the expected body.
ProviderOutcomes ==
    {"fetch_rejects", "http_error", "bad_json", "no_body", "blank", "empty", "ok"}
\* Bodies JSON.parse does not take.
NotJson == {"http_error", "bad_json", "no_body", "blank"}

\* response.ok of the answer.
ResponseOk(env) == env \notin {"fetch_rejects", "http_error"}

\* The text of the answer's body, as a sequence of characters.
Whitespace == {" ", "\n", "\t"}
ScrapeBody(env) ==
    CASE env = "no_body" -> <<>>
      [] env = "blank" -> <<" ", "\n", "\t">>
      [] env = "empty" -> <<"{", "}">>
      [] env = "bad_json" -> <<"\n", "<", "p", ">", " ">>
      [] env = "ok" -> <<" ", "<", "p", ">", "a", " ", "b", "\n">>
      [] OTHER -> <<"E", "r", "r">>

\* String.prototype.trim(): white space taken off both ends.
RECURSIVE TrimStart(_)
TrimStart(str) ==
    IF str # <<>> /\ Head(str) \in Whitespace THEN TrimStart(Tail(str)) ELSE str
RECURSIVE TrimEnd(_)
TrimEnd(str) ==
    IF str # <<>> /\ str[Len(str)] \in Whitespace
    THEN TrimEnd(SubSeq(str, 1, Len(str) - 1))
    ELSE str
\* A trim that takes nothing off.
TrimNothing(str) == str
Trim(str) == TrimEnd(TrimStart(str))

\* Every handler but get_time's destructures its argument in its parameter
\* list; destructuring null throws a TypeError.
Destructures(name) == name # "get_time"
DestructureError == Err("TypeError: Cannot destructure property of null")
DestructureFails(name, args) == Destructures(name) /\ args.t = "null"

\* The handlers that await nothing.
SyncHandler(name, args) ==
    IF DestructureFails(name, args) THEN Throw(DestructureError)
    ELSE Return(Obj("ok_true", ""))

\* The handlers that await a provider, from the provider's answer on.
\* get_weather and generate_image have no try/catch of their own;
\* search_related_topics, wikipedia_search and webpage_scrape catch
\* everything after the destructuring.
NetworkHandler(name, env) ==
    CASE name = "get_weather" ->
           IF env = "ok" THEN Return(Obj("data", "weather"))
           ELSE IF env = "fetch_rejects" THEN Throw(Err("TypeError: Failed to fetch"))
           ELSE IF env \in NotJson THEN Throw(Err("SyntaxError: Unexpected token"))
           ELSE Throw(Err("TypeError: Cannot read properties of undefined"))
      [] name = "generate_image" ->
           IF env = "ok" THEN Return(Obj("ok_true", ""))
           ELSE IF env = "empty" THEN Throw(Err("TypeError: Cannot read properties of undefined"))
           ELSE Throw(Err("APIError"))
      [] name = "search_related_topics" ->
           IF env = "ok" THEN Return(Obj("ok_true", ""))
           ELSE IF env = "empty" THEN Return(Obj("ok_false", "No related topics found"))
           ELSE Return(Obj("ok_false", "Error retrieving related topics"))
      [] name = "wikipedia_search" ->
           IF env = "ok" THEN Return(Obj("ok_true", ""))
           ELSE IF env = "empty" THEN Return(Obj("ok_false", "No search results found"))
           ELSE Return(Obj("ok_false", "Error searching Wikipedia"))
      [] name = "webpage_scrape" ->
           IF ~ResponseOk(env) THEN Return(Obj("ok_false", "Error scraping webpage"))
           ELSE IF Trim(ScrapeBody(env)) = <<>>
                THEN Return(Obj("ok_false", "No text content found on the webpage"))
           ELSE Return(Obj("ok_true", ""))

\* An async function called directly by the transport: its promise.
AsyncSettle(h) == IF h.how = "return" THEN Resolved(h.val) ELSE Rejected(h.val)

\* The promise the registered callback returns to the transport: eight tools
\* are registered as (args) => _onTool(args, handler), wikipedia_search and
\* webpage_scrape as bare async functions.
Settle(name, h) == IF name \in WrappedTools THEN _onTool(h) ELSE AsyncSettle(h)

\* JSON.stringify(memory, null, 2): properties whose value is undefined are
\* left out.
Serialize(m) == [k \in {x \in DOMAIN m : m[x] # Undefined} |-> m[k]]

\* A reducer that replaces the store by the one pair, as setMemory would.
UpdateMemoryReplacing(m, key, value) == [k \in {key} |-> value]

\* updateMemory reducer: state.memory[key] = value.
UpdateMemory(m, key, value) ==
    [k \in DOMAIN m \cup {key} |-> IF k = key THEN value ELSE m[k]]

\* removeMemory reducer: delete state.memory[key].
RemoveMemory(m, key) == [k \in DOMAIN m \ {key} |-> m[k]]

EmptyMemory == [k \in {} |-> Undefined]

NoCall == "none"
NoEnv == "none"
\* A settled call: the callback's name, the kind of arguments value it got,
\* the key a memory tool was called with, what its provider answered (NoEnv
\* for a call that reached no provider), the store the call found, how its
\* handler ended and how the promise handed to the caller settled.
Result(name, argsT, key, env, before, h, p) ==
    [name |-> name, argsT |-> argsT, key |-> key, env |-> env, before |-> before,
     h |-> h, settle |-> p.settle, val |-> p.val]
NoResult ==
    Result("none", "none", Undefined, NoEnv, EmptyMemory, Return(JsUndefined),
           [settle |-> "none", val |-> JsUndefined])
\* The name under which a direct call of _onTool with any handler is recorded.
AnyHandler == "any_handler"

\* How handlers handed to _onTool may end: with or without a value, by
\* throwing an Error or any other value, null and undefined included (a
\* rejected promise is a throw at the await).
HandlerValues ==
    {JsUndefined, JsNull, Err("boom"), Str("oops"), Obj("data", "echo"),
     Obj("ok_false", "failed")}
HandlerOutcomes == {Return(v) : v \in HandlerValues} \cup {Throw(v) : v \in HandlerValues}

(***************************************************************************)
(* Bounds of the model.                                                   *)
(***************************************************************************)
MaxEvents == 4     \* events delivered to the log between two resets
MaxTasks == 2      \* handlers suspended at an await at the same time
MaxItems == 2      \* conversation items the transport creates
MaxUpdates == 4    \* conversation.updated events delivered
MaxChunks == 2     \* audio chunks queued on the playing track
MaxRequests == 3   \* requests the proxy server receives
MaxFrames == 2     \* frames the recorder delivers to the record() callback

EventTypes == {"input_audio_buffer.append", "response.audio.delta", "response.created"}

\* The identifiers the transport gives its items, in creation order.
ItemIdSeq == <<"item_a", "item_b", "item_c", "item_d">>
ItemIds == {ItemIdSeq[i] : i \in 1..Len(ItemIdSeq)}
NoTrack == "none"

\* A call a step makes on a collaborator (the transport client, the recorder
\* or the player), with its string argument, track and offset where it has them.
Call(on, op, arg, track, offset) ==
    [on |-> on, op |-> op, arg |-> arg, track |-> track, offset |-> offset]
ClientCall(op, arg) == Call("client", op, arg, NoTrack, 0)
RecorderCall(op) == Call("recorder", op, "", NoTrack, 0)

\* A handler suspended at an await: the handler, the await it is at, its
\* local values and (conversation.updated only) the item list it read.
Task(h, pc, v, n, snap) == [h |-> h, pc |-> pc, v |-> v, n |-> n, snap |-> snap]
\* A task of a handler that keeps no local value.
Await(h, pc) == Task(h, pc, "", 0, <<>>)

VARIABLES
    \* tools, memory and display state
    memory,          \* the redux memory slice (MemoryStore)
    pushedMemory,    \* the memory text embedded in the instructions last pushed
    marker,          \* "null" | "location" | "weather"
    coords,          \* "default" | "location"
    information,     \* "null" | "set"
    displayedImage,  \* "null" | "url"
    pendingTool,     \* the name of the tool awaiting its provider, or NoCall
    toolResult,      \* how the last tool call (or direct _onTool call) settled
    \* event log
    realtimeEvents,  \* the log: a sequence of [type, id, count]
    received,        \* the types of the events delivered since the last reset
    \* session
    isConnected,     \* React state: the connected flag
    canPushToTalk,   \* React state
    isRecording,     \* React state
    toggleValue,     \* the value the manual/vad Toggle shows
    clientConnected, \* client.isConnected()
    turnDetection,   \* client.getTurnDetectionType(): "none" | "server_vad"
    recorder,        \* wavRecorder.getStatus(): "ended" | "paused" | "recording"
    player,          \* [track, offset, queued]: what the stream player plays
    tasks,           \* the handlers suspended at an await
    calls,           \* the collaborator calls the last step made, in order
    lastStep,        \* the handler segment that ran last
    connectResult,   \* how the last connectConversation() ended
    \* transcript
    convItems,       \* client.conversation.getItems(): item ids in order
    itemState,       \* per item id: [status, audio, decodes, role]
    items,           \* React state: the displayed transcript (item ids)
    nUpdates,        \* conversation.updated events delivered so far
    \* proxy server
    proxyPending,    \* the requests whose outbound fetch has not settled
    proxyLog,        \* the responses sent so far, in order
    \* captured audio
    frames,          \* per frame delivered, in capture order: was the client connected
    forwarded        \* the frames given to client.appendInputAudio, in call order

toolVars == <<memory, pushedMemory, information, displayedImage, pendingTool, toolResult>>
displayVars == <<marker, coords>>
logVars == <<realtimeEvents, received>>
uiVars == <<isConnected, canPushToTalk, isRecording, toggleValue>>
clientVars == <<clientConnected, turnDetection>>
procVars == <<tasks, calls, lastStep, connectResult>>
convVars == <<convItems, itemState, items, nUpdates>>
proxyVars == <<proxyPending, proxyLog>>
frameVars == <<frames, forwarded>>

vars ==
    <<toolVars, displayVars, logVars, uiVars, clientVars, recorder, player,
      procVars, convVars, proxyVars, frameVars>>

NoItem == [status |-> "none", audio |-> FALSE, decodes |-> 0, role |-> "none"]
Stopped == [track |-> NoTrack, offset |-> 0, queued |-> 0]

\* The state after the page has mounted: the useState/useRef initial values
\* and the setup effect, which pushes the instructions with the memory of
\* that moment and runs once (its dependency list is empty).
Init ==
    /\ memory = EmptyMemory
    /\ pushedMemory = Serialize(memory)
    /\ marker = "null"
    /\ coords = "default"
    /\ information = "null"
    /\ displayedImage = "null"
    /\ pendingTool = NoCall
    /\ toolResult = NoResult
    /\ realtimeEvents = <<>>
    /\ received = <<>>
    /\ isConnected = FALSE
    /\ canPushToTalk = TRUE
    /\ isRecording = FALSE
    /\ toggleValue = "none"
    /\ clientConnected = FALSE
    /\ turnDetection = "none"
    /\ recorder = "ended"
    /\ player = Stopped
    /\ tasks = {}
    /\ calls = <<>>
    /\ lastStep = "mount"
    /\ connectResult = "none"
    /\ convItems = <<>>
    /\ itemState = [i \in ItemIds |-> NoItem]
    /\ items = <<>>
    /\ nUpdates = 0
    /\ proxyPending = {}
    /\ proxyLog = <<>>
    /\ frames = <<>>
    /\ forwarded = <<>>

(***************************************************************************)
(* Tool calls.                                                            *)
(***************************************************************************)
\* The transport calls a registered tool with the agent's arguments: the
\* handler up to its first await.  A handler that awaits nothing settles here.
ToolInvoke(name, args) ==
    /\ pendingTool = NoCall
    /\ LET fails == DestructureFails(name, args) IN
       /\ IF name \in NetworkTools /\ ~fails
          THEN /\ pendingTool' = name
               /\ UNCHANGED toolResult
          ELSE /\ pendingTool' = NoCall
               /\ toolResult' =
                     Result(name, args.t,
                            IF name \in MemoryTools THEN args.key ELSE Undefined,
                            NoEnv, memory, SyncHandler(name, args),
                            Settle(name, SyncHandler(name, args)))
       /\ memory' =
            IF fails THEN memory
            ELSE IF name = "set_memory" THEN UpdateMemory(memory, args.key, args.value)
            ELSE IF name = "remove_memory" THEN RemoveMemory(memory, args.key)
            ELSE memory
       /\ marker' =
            IF ~fails /\ name \in {"show_location", "get_weather"} THEN "location"
            ELSE marker
       /\ coords' =
            IF ~fails /\ name \in {"show_location", "get_weather"} THEN "location"
            ELSE coords
       /\ information' = IF ~fails /\ name = "show_info" THEN "set" ELSE information
    /\ UNCHANGED <<pushedMemory, displayedImage>>
    /\ UNCHANGED <<logVars, uiVars, clientVars, recorder, player, procVars, convVars>>
    /\ UNCHANGED proxyVars
    /\ UNCHANGED frameVars

\* The provider answers the pending tool call: the rest of the handler.
ToolProviderReply(env) ==
    /\ pendingTool # NoCall
    /\ toolResult' =
          Result(pendingTool, "object", Undefined, env, memory,
                 NetworkHandler(pendingTool, env),
                 Settle(pendingTool, NetworkHandler(pendingTool, env)))
    /\ marker' = IF pendingTool = "get_weather" /\ env = "ok" THEN "weather" ELSE marker
    /\ displayedImage' =
          IF pendingTool = "generate_image" /\ env = "ok" THEN "url" ELSE displayedImage
    /\ pendingTool' = NoCall
    /\ UNCHANGED <<memory, pushedMemory, coords, information>>
    /\ UNCHANGED <<logVars, uiVars, clientVars, recorder, player, procVars, convVars>>
    /\ UNCHANGED proxyVars
    /\ UNCHANGED frameVars

\* _onTool called with a handler that ends as h.
GuardedCall(h) ==
    /\ toolResult' = Result(AnyHandler, "object", Undefined, NoEnv, memory, h, _onTool(h))
    /\ UNCHANGED <<memory, pushedMemory, marker, coords, information,
                   displayedImage, pendingTool>>
    /\ UNCHANGED <<logVars, uiVars, clientVars, recorder, player, procVars, convVars>>
    /\ UNCHANGED proxyVars
    /\ UNCHANGED frameVars

(***************************************************************************)
(* The event log.                                                         *)
(***************************************************************************)
\* `count?: number`: the value standing for an entry whose count is not set.
NoCount == -1

\* lastEvent.count || 0
CountOrZero(c) == IF c = NoCount THEN 0 ELSE c

\* An updater that counts the first event of a run too.
CoalesceCountingFirst(log, ev) ==
    IF Len(log) > 0 /\ log[Len(log)].type = ev.type
    THEN [log EXCEPT ![Len(log)].count = (IF @ = NoCount THEN 1 ELSE @) + 1]
    ELSE Append(log, ev)

\* An updater that merges an event into the latest entry of its type,
\* wherever that entry is.
CoalesceAnyEarlier(log, ev) ==
    IF \E i \in DOMAIN log : log[i].type = ev.type
    THEN LET i == CHOOSE j \in DOMAIN log :
                     /\ log[j].type = ev.type
                     /\ \A k \in DOMAIN log : log[k].type = ev.type => k <= j
         IN [log EXCEPT ![i].count = CountOrZero(@) + 1]
    ELSE Append(log, ev)

\* An updater that puts the new event, with the counter, in the place of
\* the entry it repeats.
CoalesceKeepingLatest(log, ev) ==
    IF Len(log) > 0 /\ log[Len(log)].type = ev.type
    THEN [log EXCEPT ![Len(log)] = [ev EXCEPT !.count = CountOrZero(log[Len(log)].count) + 1]]
    ELSE Append(log, ev)

\* The state updater of the realtime.event handler.
Coalesce(log, ev) ==
    IF Len(log) > 0 /\ log[Len(log)].type = ev.type
    THEN [log EXCEPT ![Len(log)].count = CountOrZero(@) + 1]
    ELSE Append(log, ev)

\* realtime.event: the transport reports an event it sent or received.
RealtimeEvent(type) ==
    /\ Len(received) < MaxEvents
    /\ realtimeEvents' =
          Coalesce(realtimeEvents,
                   [type |-> type, id |-> Len(received) + 1, count |-> NoCount])
    /\ received' = Append(received, type)
    /\ UNCHANGED <<toolVars, displayVars, uiVars, clientVars, recorder, player,
                   procVars, convVars>>
    /\ UNCHANGED proxyVars
    /\ UNCHANGED frameVars

(***************************************************************************)
(* The audio devices.  WavRecorder and WavStreamPlayer live in             *)
(* src/lib/wavtools, which is not part of the sources at hand: they are    *)
(* modelled from their contract (sections 4.1 and 8.4 of the design) and   *)
(* from the way ConsolePage.tsx calls them.                                *)
(***************************************************************************)
\* Whether the recorder takes the call: one capture, one recording session
\* at a time.  A call it does not take rejects at once.
RecorderAccepts(op, status) ==
    CASE op = "begin" -> status = "ended"
      [] op = "record" -> status = "paused"
      [] op = "pause" -> status = "recording"
      [] op = "end" -> status # "ended"

\* The recorder's status once the awaited call completes.
RecorderAfter(op, status) ==
    CASE op = "begin" -> "paused"
      [] op = "record" -> IF status = "ended" THEN "ended" ELSE "recording"
      [] op = "pause" -> IF status = "ended" THEN "ended" ELSE "paused"
      [] op = "end" -> "ended"

\* wavStreamPlayer.interrupt() stops the output at once and returns a promise
\* (it is awaited at ConsolePage.tsx:282 and :880) of the track that was cut
\* off and its sample offset; trackId is null when nothing was playing.
InterruptResult(p) == [trackId |-> p.track, offset |-> p.offset]
PlayerCall(op, p) == Call("player", op, "", p.track, p.offset)

\* wavStreamPlayer.add16BitPCM(chunk, trackId)
Enqueue(p, id) ==
    IF p.track = id
    THEN [p EXCEPT !.queued = IF @ < MaxChunks THEN @ + 1 ELSE @]
    ELSE [track |-> id, offset |-> 0, queued |-> 1]

\* `x?.trackId` where x is what the interrupt() call gave: the promise's
\* result when the call was awaited, the promise itself when it was not (a
\* promise has no trackId property).
TrackIdRead(awaited, res) == IF awaited THEN res.trackId ELSE Undefined
Truthy(x) == x \notin {Undefined, NoTrack, ""}

(***************************************************************************)
(* Session handlers.                                                      *)
(***************************************************************************)
CanSuspend(t, ts) == Cardinality(ts) < MaxTasks /\ t \notin ts

\* connectConversation, up to `await wavRecorder.begin()`.
ConnectConversation ==
    LET t == Await("connectConversation", "begin") IN
    /\ ~isConnected
    /\ CanSuspend(t, tasks)
    /\ isConnected' = TRUE
    /\ realtimeEvents' = <<>>
    /\ received' = <<>>
    /\ items' = convItems
    /\ calls' = <<RecorderCall("begin")>>
    /\ lastStep' = "connectConversation"
    /\ IF RecorderAccepts("begin", recorder)
       THEN tasks' = tasks \cup {t} /\ connectResult' = "pending"
       ELSE tasks' = tasks /\ connectResult' = "RecorderError"
    /\ UNCHANGED <<toolVars, displayVars, canPushToTalk, isRecording, toggleValue,
                   clientVars, recorder, player, convItems, itemState, nUpdates>>
    /\ UNCHANGED proxyVars
    /\ UNCHANGED frameVars

\* wavRecorder.begin() settles; on success `await wavStreamPlayer.connect()`.
ConnectAfterBegin(ok) ==
    LET t == Await("connectConversation", "begin")
        t2 == Await("connectConversation", "player") IN
    /\ t \in tasks
    /\ lastStep' = "connectConversation.begin"
    /\ IF ok
       THEN /\ recorder' = RecorderAfter("begin", recorder)
            /\ tasks' = (tasks \ {t}) \cup {t2}
            /\ calls' = <<Call("player", "connect", "", NoTrack, 0)>>
            /\ UNCHANGED connectResult
       ELSE /\ tasks' = tasks \ {t}
            /\ calls' = <<>>
            /\ connectResult' = "DeviceUnavailable"
            /\ UNCHANGED recorder
    /\ UNCHANGED <<toolVars, displayVars, logVars, uiVars, clientVars, player, convVars>>
    /\ UNCHANGED proxyVars
    /\ UNCHANGED frameVars

\* wavStreamPlayer.connect() settles; on success `await client.connect()`,
\* which throws at once when the client is connected already.
ConnectAfterPlayer(ok) ==
    LET t == Await("connectConversation", "player")
        t2 == Await("connectConversation", "client") IN
    /\ t \in tasks
    /\ lastStep' = "connectConversation.player"
    /\ IF ok
       THEN /\ calls' = <<ClientCall("connect", "")>>
            /\ IF clientConnected
               THEN tasks' = tasks \ {t} /\ connectResult' = "AlreadyConnected"
               ELSE tasks' = (tasks \ {t}) \cup {t2} /\ UNCHANGED connectResult
       ELSE /\ tasks' = tasks \ {t}
            /\ calls' = <<>>
            /\ connectResult' = "DeviceUnavailable"
    /\ UNCHANGED <<toolVars, displayVars, logVars, uiVars, clientVars, recorder,
                   player, convVars>>
    /\ UNCHANGED proxyVars
    /\ UNCHANGED frameVars

\* A connectConversation that starts recording after client.connect()
\* whatever the turn-detection mode.
ConnectAfterClientAlwaysRecording(ok) ==
    LET t == Await("connectConversation", "client")
        t2 == Await("connectConversation", "record") IN
    /\ t \in tasks
    /\ lastStep' = "connectConversation.client"
    /\ IF ~ok
       THEN /\ tasks' = tasks \ {t}
            /\ calls' = <<>>
            /\ connectResult' = "TransportError"
            /\ UNCHANGED clientConnected
       ELSE /\ clientConnected' = TRUE
            /\ calls' = <<ClientCall("sendUserMessageContent", ""),
                          RecorderCall("record")>>
            /\ IF RecorderAccepts("record", recorder)
               THEN tasks' = (tasks \ {t}) \cup {t2} /\ UNCHANGED connectResult
               ELSE tasks' = tasks \ {t} /\ connectResult' = "RecorderError"
    /\ UNCHANGED <<toolVars, displayVars, logVars, uiVars, turnDetection, recorder,
                   player, convVars>>
    /\ UNCHANGED proxyVars
    /\ UNCHANGED frameVars

\* A connectConversation that sends the greeting whether or not
\* client.connect() succeeded.
ConnectAfterClientGreetingAlways(ok) ==
    LET t == Await("connectConversation", "client")
        t2 == Await("connectConversation", "record") IN
    /\ t \in tasks
    /\ lastStep' = "connectConversation.client"
    /\ IF ~ok
       THEN /\ tasks' = tasks \ {t}
            /\ calls' = <<ClientCall("sendUserMessageContent", "")>>
            /\ connectResult' = "TransportError"
            /\ UNCHANGED clientConnected
       ELSE /\ clientConnected' = TRUE
            /\ IF turnDetection = "server_vad"
               THEN /\ calls' = <<ClientCall("sendUserMessageContent", ""),
                                  RecorderCall("record")>>
                    /\ IF RecorderAccepts("record", recorder)
                       THEN tasks' = (tasks \ {t}) \cup {t2} /\ UNCHANGED connectResult
                       ELSE tasks' = tasks \ {t} /\ connectResult' = "RecorderError"
               ELSE /\ calls' = <<ClientCall("sendUserMessageContent", "")>>
                    /\ tasks' = tasks \ {t}
                    /\ connectResult' = "ok"
    /\ UNCHANGED <<toolVars, displayVars, logVars, uiVars, turnDetection, recorder,
                   player, convVars>>
    /\ UNCHANGED proxyVars
    /\ UNCHANGED frameVars

\* client.connect() settles; on success the greeting is sent and, in
\* server_vad mode, `await wavRecorder.record(...)`.
ConnectAfterClient(ok) ==
    LET t == Await("connectConversation", "client")
        t2 == Await("connectConversation", "record") IN
    /\ t \in tasks
    /\ lastStep' = "connectConversation.client"
    /\ IF ~ok
       THEN /\ tasks' = tasks \ {t}
            /\ calls' = <<>>
            /\ connectResult' = "TransportError"
            /\ UNCHANGED clientConnected
       ELSE /\ clientConnected' = TRUE
            /\ IF turnDetection = "server_vad"
               THEN /\ calls' = <<ClientCall("sendUserMessageContent", ""),
                                  RecorderCall("record")>>
                    /\ IF RecorderAccepts("record", recorder)
                       THEN tasks' = (tasks \ {t}) \cup {t2} /\ UNCHANGED connectResult
                       ELSE tasks' = tasks \ {t} /\ connectResult' = "RecorderError"
               ELSE /\ calls' = <<ClientCall("sendUserMessageContent", "")>>
                    /\ tasks' = tasks \ {t}
                    /\ connectResult' = "ok"
    /\ UNCHANGED <<toolVars, displayVars, logVars, uiVars, turnDetection, recorder,
                   player, convVars>>
    /\ UNCHANGED proxyVars
    /\ UNCHANGED frameVars

\* wavRecorder.record() of connectConversation completes.
ConnectAfterRecord ==
    LET t == Await("connectConversation", "record") IN
    /\ t \in tasks
    /\ lastStep' = "connectConversation.record"
    /\ recorder' = RecorderAfter("record", recorder)
    /\ tasks' = tasks \ {t}
    /\ calls' = <<>>
    /\ connectResult' = "ok"
    /\ UNCHANGED <<toolVars, displayVars, logVars, uiVars, clientVars, player, convVars>>
    /\ UNCHANGED proxyVars
    /\ UNCHANGED frameVars

\* A disconnectConversation that also dispatches setMemory({}).
DisconnectConversationClearingMemory ==
    LET t == Await("disconnectConversation", "end") IN
    /\ isConnected
    /\ CanSuspend(t, tasks)
    /\ isConnected' = FALSE
    /\ realtimeEvents' = <<>>
    /\ received' = <<>>
    /\ items' = <<>>
    /\ memory' = EmptyMemory
    /\ coords' = "default"
    /\ marker' = "null"
    /\ clientConnected' = FALSE
    /\ convItems' = <<>>
    /\ calls' = <<ClientCall("disconnect", ""), RecorderCall("end")>>
    /\ lastStep' = "disconnectConversation"
    /\ tasks' = IF RecorderAccepts("end", recorder) THEN tasks \cup {t} ELSE tasks
    /\ UNCHANGED <<pushedMemory, information, displayedImage, pendingTool, toolResult,
                   canPushToTalk, isRecording, toggleValue, turnDetection,
                   recorder, player, connectResult, itemState, nUpdates>>
    /\ UNCHANGED proxyVars
    /\ UNCHANGED frameVars

\* disconnectConversation, up to `await wavRecorder.end()`.  client.disconnect()
\* closes the transport and clears the client's conversation.
DisconnectConversation ==
    LET t == Await("disconnectConversation", "end") IN
    /\ isConnected
    /\ CanSuspend(t, tasks)
    /\ isConnected' = FALSE
    /\ realtimeEvents' = <<>>
    /\ received' = <<>>
    /\ items' = <<>>
    /\ coords' = "default"
    /\ marker' = "null"
    /\ clientConnected' = FALSE
    /\ convItems' = <<>>
    /\ calls' = <<ClientCall("disconnect", ""), RecorderCall("end")>>
    /\ lastStep' = "disconnectConversation"
    /\ tasks' = IF RecorderAccepts("end", recorder) THEN tasks \cup {t} ELSE tasks
    /\ UNCHANGED <<toolVars, canPushToTalk, isRecording, toggleValue, turnDetection,
                   recorder, player, connectResult, itemState, nUpdates>>
    /\ UNCHANGED proxyVars
    /\ UNCHANGED frameVars

\* wavRecorder.end() completes; `await wavStreamPlayer.interrupt()`.
DisconnectAfterEnd ==
    LET t == Await("disconnectConversation", "end")
        t2 == Await("disconnectConversation", "interrupt") IN
    /\ t \in tasks
    /\ lastStep' = "disconnectConversation.end"
    /\ recorder' = RecorderAfter("end", recorder)
    /\ calls' = <<PlayerCall("interrupt", player)>>
    /\ player' = Stopped
    /\ tasks' = (tasks \ {t}) \cup {t2}
    /\ UNCHANGED <<toolVars, displayVars, logVars, uiVars, clientVars, connectResult,
                   convVars>>
    /\ UNCHANGED proxyVars
    /\ UNCHANGED frameVars

\* wavStreamPlayer.interrupt() of disconnectConversation completes.
DisconnectAfterInterrupt ==
    LET t == Await("disconnectConversation", "interrupt") IN
    /\ t \in tasks
    /\ lastStep' = "disconnectConversation.interrupt"
    /\ tasks' = tasks \ {t}
    /\ calls' = <<>>
    /\ UNCHANGED <<toolVars, displayVars, logVars, uiVars, clientVars, recorder,
                   player, connectResult, convVars>>
    /\ UNCHANGED proxyVars
    /\ UNCHANGED frameVars

\* startRecording (push-to-talk pressed), up to `await wavRecorder.record(...)`.
\* The interrupt() call is not awaited here: trackSampleOffset is the promise.
StartRecording ==
    LET t == Await("startRecording", "record")
        res == InterruptResult(player)
        cancel == Truthy(TrackIdRead(FALSE, res)) IN
    /\ isConnected /\ canPushToTalk
    /\ CanSuspend(t, tasks)
    /\ isRecording' = TRUE
    /\ player' = Stopped
    /\ calls' =
          <<PlayerCall("interrupt", player)>>
          \o (IF cancel
              THEN <<Call("client", "cancelResponse", "", res.trackId, res.offset)>>
              ELSE <<>>)
          \o <<RecorderCall("record")>>
    /\ lastStep' = "startRecording"
    /\ tasks' = IF RecorderAccepts("record", recorder) THEN tasks \cup {t} ELSE tasks
    /\ UNCHANGED <<toolVars, displayVars, logVars, isConnected, canPushToTalk,
                   toggleValue, clientVars, recorder, connectResult, convVars>>
    /\ UNCHANGED proxyVars
    /\ UNCHANGED frameVars

\* wavRecorder.record() of startRecording completes.
StartAfterRecord ==
    LET t == Await("startRecording", "record") IN
    /\ t \in tasks
    /\ lastStep' = "startRecording.record"
    /\ recorder' = RecorderAfter("record", recorder)
    /\ tasks' = tasks \ {t}
    /\ calls' = <<>>
    /\ UNCHANGED <<toolVars, displayVars, logVars, uiVars, clientVars, player,
                   connectResult, convVars>>
    /\ UNCHANGED proxyVars
    /\ UNCHANGED frameVars

\* stopRecording (push-to-talk released), up to `await wavRecorder.pause()`.
StopRecording ==
    LET t == Await("stopRecording", "pause") IN
    /\ isConnected /\ canPushToTalk
    /\ CanSuspend(t, tasks)
    /\ isRecording' = FALSE
    /\ calls' = <<RecorderCall("pause")>>
    /\ lastStep' = "stopRecording"
    /\ tasks' = IF RecorderAccepts("pause", recorder) THEN tasks \cup {t} ELSE tasks
    /\ UNCHANGED <<toolVars, displayVars, logVars, isConnected, canPushToTalk,
                   toggleValue, clientVars, recorder, player, connectResult, convVars>>
    /\ UNCHANGED proxyVars
    /\ UNCHANGED frameVars

\* A stopRecording that requests a response without asking whether the
\* client is connected.
StopAfterPauseUnconditional ==
    LET t == Await("stopRecording", "pause") IN
    /\ t \in tasks
    /\ lastStep' = "stopRecording.pause"
    /\ recorder' = RecorderAfter("pause", recorder)
    /\ tasks' = tasks \ {t}
    /\ calls' = <<ClientCall("createResponse", "")>>
    /\ UNCHANGED <<toolVars, displayVars, logVars, uiVars, clientVars, player,
                   connectResult, convVars>>
    /\ UNCHANGED proxyVars
    /\ UNCHANGED frameVars

\* wavRecorder.pause() of stopRecording completes; a response is requested
\* if the client is connected.
StopAfterPause ==
    LET t == Await("stopRecording", "pause") IN
    /\ t \in tasks
    /\ lastStep' = "stopRecording.pause"
    /\ recorder' = RecorderAfter("pause", recorder)
    /\ tasks' = tasks \ {t}
    /\ calls' = IF clientConnected THEN <<ClientCall("createResponse", "")>> ELSE <<>>
    /\ UNCHANGED <<toolVars, displayVars, logVars, uiVars, clientVars, player,
                   connectResult, convVars>>
    /\ UNCHANGED proxyVars
    /\ UNCHANGED frameVars

\* A changeTurnEndType that records in server_vad mode whether or not the
\* client is connected.
ChangeTurnEndTypeUpdateAlwaysRecording(value, ts) ==
    LET t == Task("changeTurnEndType", "record", value, 0, <<>>) IN
    /\ turnDetection' = value
    /\ IF value = "server_vad"
       THEN /\ calls' = <<ClientCall("updateSession", value), RecorderCall("record")>>
            /\ tasks' = IF RecorderAccepts("record", recorder) THEN ts \cup {t} ELSE ts
            /\ UNCHANGED canPushToTalk
       ELSE /\ calls' = <<ClientCall("updateSession", value)>>
            /\ tasks' = ts
            /\ canPushToTalk' = (value = "none")

\* changeTurnEndType from client.updateSession on, with the tasks ts left
\* suspended: the update, then in server_vad mode on a connected client
\* `await wavRecorder.record(...)`, then setCanPushToTalk.  A record() the
\* recorder does not take rejects, and setCanPushToTalk is not reached.
ChangeTurnEndTypeUpdate(value, ts) ==
    LET t == Task("changeTurnEndType", "record", value, 0, <<>>) IN
    /\ turnDetection' = value
    /\ IF value = "server_vad" /\ clientConnected
       THEN /\ calls' = <<ClientCall("updateSession", value), RecorderCall("record")>>
            /\ tasks' = IF RecorderAccepts("record", recorder) THEN ts \cup {t} ELSE ts
            /\ UNCHANGED canPushToTalk
       ELSE /\ calls' = <<ClientCall("updateSession", value)>>
            /\ tasks' = ts
            /\ canPushToTalk' = (value = "none")

\* A changeTurnEndType that does not wait for wavRecorder.pause() before it
\* goes on to the update.
ChangeTurnEndTypeNoAwait ==
    LET value == IF toggleValue = "none" THEN "server_vad" ELSE "none"
        t == Task("changeTurnEndType", "pause", value, 0, <<>>) IN
    /\ Cardinality(tasks) < MaxTasks
    /\ \A x \in tasks : ~(x.h = "changeTurnEndType" /\ x.v = value)
    /\ toggleValue' = value
    /\ lastStep' = "changeTurnEndType"
    /\ IF value = "none" /\ recorder = "recording"
       THEN /\ calls' = <<RecorderCall("pause"), ClientCall("updateSession", value)>>
            /\ tasks' = tasks \cup {t}
            /\ turnDetection' = value
            /\ canPushToTalk' = TRUE
       ELSE ChangeTurnEndTypeUpdate(value, tasks)
    /\ UNCHANGED <<toolVars, displayVars, logVars, isConnected, isRecording,
                   clientConnected, recorder, player, connectResult, convVars>>
    /\ UNCHANGED proxyVars
    /\ UNCHANGED frameVars

\* changeTurnEndType(value), called by the Toggle with the value it switches
\* to, up to its first await: wavRecorder.pause() when switching to manual
\* while recording.
ChangeTurnEndType ==
    LET value == IF toggleValue = "none" THEN "server_vad" ELSE "none"
        t == Task("changeTurnEndType", "pause", value, 0, <<>>) IN
    /\ Cardinality(tasks) < MaxTasks
    /\ \A x \in tasks : ~(x.h = "changeTurnEndType" /\ x.v = value)
    /\ toggleValue' = value
    /\ lastStep' = "changeTurnEndType"
    /\ IF value = "none" /\ recorder = "recording"
       THEN /\ calls' = <<RecorderCall("pause")>>
            /\ tasks' = tasks \cup {t}
            /\ UNCHANGED <<turnDetection, canPushToTalk>>
       ELSE ChangeTurnEndTypeUpdate(value, tasks)
    /\ UNCHANGED <<toolVars, displayVars, logVars, isConnected, isRecording,
                   clientConnected, recorder, player, connectResult, convVars>>
    /\ UNCHANGED proxyVars
    /\ UNCHANGED frameVars

\* wavRecorder.pause() of changeTurnEndType('none') completes: the rest of
\* the handler runs.
ChangeAfterPause ==
    LET t == Task("changeTurnEndType", "pause", "none", 0, <<>>) IN
    /\ t \in tasks
    /\ lastStep' = "changeTurnEndType.pause"
    /\ recorder' = RecorderAfter("pause", recorder)
    /\ ChangeTurnEndTypeUpdate("none", tasks \ {t})
    /\ UNCHANGED <<toolVars, displayVars, logVars, isConnected, isRecording,
                   toggleValue, clientConnected, player, connectResult, convVars>>
    /\ UNCHANGED proxyVars
    /\ UNCHANGED frameVars

\* wavRecorder.record() of changeTurnEndType('server_vad') completes.
ChangeAfterRecord ==
    LET t == Task("changeTurnEndType", "record", "server_vad", 0, <<>>) IN
    /\ t \in tasks
    /\ lastStep' = "changeTurnEndType.record"
    /\ recorder' = RecorderAfter("record", recorder)
    /\ canPushToTalk' = FALSE
    /\ tasks' = tasks \ {t}
    /\ calls' = <<>>
    /\ UNCHANGED <<toolVars, displayVars, logVars, isConnected, isRecording,
                   toggleValue, clientVars, player, connectResult, convVars>>
    /\ UNCHANGED proxyVars
    /\ UNCHANGED frameVars

\* A record() callback that forwards the frame without asking whether the
\* client is connected.
FrameUnguarded ==
    LET n == Len(frames) + 1 IN
    /\ recorder = "recording"
    /\ n <= MaxFrames
    /\ lastStep' = "frame"
    /\ frames' = Append(frames, clientConnected)
    /\ calls' = <<ClientCall("appendInputAudio", "")>>
    /\ forwarded' = Append(forwarded, n)
    /\ UNCHANGED <<toolVars, displayVars, logVars, uiVars, clientVars, recorder,
                   player, tasks, connectResult, convVars>>
    /\ UNCHANGED proxyVars

\* The recorder delivers a captured frame, the n-th, to the callback given
\* to record(): it is appended to the transport if the client is connected
\* and is otherwise dropped with a warning.  The callback keeps nothing.
Frame ==
    LET n == Len(frames) + 1 IN
    /\ recorder = "recording"
    /\ n <= MaxFrames
    /\ lastStep' = "frame"
    /\ frames' = Append(frames, clientConnected)
    /\ IF clientConnected
       THEN /\ calls' = <<ClientCall("appendInputAudio", "")>>
            /\ forwarded' = Append(forwarded, n)
       ELSE /\ calls' = <<>>
            /\ UNCHANGED forwarded
    /\ UNCHANGED <<toolVars, displayVars, logVars, uiVars, clientVars, recorder,
                   player, tasks, connectResult, convVars>>
    /\ UNCHANGED proxyVars

(***************************************************************************)
(* Playback and the transcript.                                           *)
(***************************************************************************)
\* The player plays on through the queued audio of its track.
PlaybackProgress ==
    /\ player.track # NoTrack
    /\ player.offset < player.queued
    /\ player' = [player EXCEPT !.offset = @ + 1]
    /\ UNCHANGED <<toolVars, displayVars, logVars, uiVars, clientVars, recorder,
                   procVars, convVars>>
    /\ UNCHANGED proxyVars
    /\ UNCHANGED frameVars

\* The queued audio has been played to its end.
PlaybackEnds ==
    /\ player.track # NoTrack
    /\ player.offset = player.queued
    /\ player' = Stopped
    /\ UNCHANGED <<toolVars, displayVars, logVars, uiVars, clientVars, recorder,
                   procVars, convVars>>
    /\ UNCHANGED proxyVars
    /\ UNCHANGED frameVars

\* A conversation.updated handler that gives the delta to the player only
\* when no earlier handler is suspended in WavRecorder.decode.
OnUpdatedEnqueueWhenIdle(id, deltaAudio, st, list) ==
    LET t == Task("conversation.updated", "decode", id, 0, list)
        idle == \A x \in tasks : x.h # "conversation.updated" IN
    /\ nUpdates < MaxUpdates
    /\ nUpdates' = nUpdates + 1
    /\ player' = IF deltaAudio /\ idle THEN Enqueue(player, id) ELSE player
    /\ lastStep' = "conversation.updated"
    /\ calls' = IF deltaAudio /\ idle
                THEN <<Call("player", "add16BitPCM", "", id, 0)>> ELSE <<>>
    /\ IF st.status = "completed" /\ st.audio
       THEN /\ CanSuspend(t, tasks)
            /\ tasks' = tasks \cup {t}
            /\ UNCHANGED items
       ELSE /\ items' = list
            /\ UNCHANGED tasks

\* The conversation.updated handler for item id, whose state is st, the
\* client's list being list (both after the client applied the event):
\*   const items = client.conversation.getItems();      (a copy of the list)
\*   if (delta?.audio) wavStreamPlayer.add16BitPCM(delta.audio, item.id);
\*   if (item.status === 'completed' && item.formatted.audio?.length)
\*     item.formatted.file = await WavRecorder.decode(...);
\*   setItems(items);
OnUpdated(id, deltaAudio, st, list) ==
    LET t == Task("conversation.updated", "decode", id, 0, list) IN
    /\ nUpdates < MaxUpdates
    /\ nUpdates' = nUpdates + 1
    /\ player' = IF deltaAudio THEN Enqueue(player, id) ELSE player
    /\ lastStep' = "conversation.updated"
    /\ calls' = IF deltaAudio THEN <<Call("player", "add16BitPCM", "", id, 0)>> ELSE <<>>
    /\ IF st.status = "completed" /\ st.audio
       THEN /\ CanSuspend(t, tasks)
            /\ tasks' = tasks \cup {t}
            /\ UNCHANGED items
       ELSE /\ items' = list
            /\ UNCHANGED tasks

\* The identifier of the next item the transport creates.
Allocated == {i \in 1..Len(ItemIdSeq) : itemState[ItemIdSeq[i]].status # "none"}
NextItem == ItemIdSeq[Cardinality(Allocated) + 1]

\* conversation.item.created: a new item joins the client's list.  A user
\* audio item arrives completed and with its audio, an assistant item in
\* progress and without.
ItemCreated(status, audio) ==
    LET st == [status |-> status, audio |-> audio, decodes |-> 0,
               role |-> IF status = "completed" THEN "user" ELSE "assistant"] IN
    /\ clientConnected
    /\ Cardinality(Allocated) < MaxItems
    /\ convItems' = Append(convItems, NextItem)
    /\ itemState' = [itemState EXCEPT ![NextItem] = st]
    /\ OnUpdated(NextItem, FALSE, st, convItems')
    /\ UNCHANGED <<toolVars, displayVars, logVars, uiVars, clientVars, recorder,
                   connectResult>>
    /\ UNCHANGED proxyVars
    /\ UNCHANGED frameVars

\* response.audio.delta: an audio chunk of an item in progress.
ItemAudioDelta(id) ==
    LET st == [itemState[id] EXCEPT !.audio = TRUE] IN
    /\ clientConnected
    /\ \E i \in DOMAIN convItems : convItems[i] = id
    /\ itemState[id].status = "in_progress"
    /\ itemState' = [itemState EXCEPT ![id] = st]
    /\ OnUpdated(id, TRUE, st, convItems)
    /\ UNCHANGED <<toolVars, displayVars, logVars, uiVars, clientVars, recorder,
                   connectResult, convItems>>
    /\ UNCHANGED proxyVars
    /\ UNCHANGED frameVars

\* A transcript or text delta of an item, such as the transcription of a
\* user audio item, which arrives after the item has completed.
ItemTextDelta(id) ==
    /\ clientConnected
    /\ \E i \in DOMAIN convItems : convItems[i] = id
    /\ OnUpdated(id, FALSE, itemState[id], convItems)
    /\ UNCHANGED <<toolVars, displayVars, logVars, uiVars, clientVars, recorder,
                   connectResult, convItems, itemState>>
    /\ UNCHANGED proxyVars
    /\ UNCHANGED frameVars

\* response.output_item.done: the item's status becomes completed.
ItemCompleted(id) ==
    LET st == [itemState[id] EXCEPT !.status = "completed"] IN
    /\ clientConnected
    /\ \E i \in DOMAIN convItems : convItems[i] = id
    /\ itemState[id].status = "in_progress"
    /\ itemState' = [itemState EXCEPT ![id] = st]
    /\ OnUpdated(id, FALSE, st, convItems)
    /\ UNCHANGED <<toolVars, displayVars, logVars, uiVars, clientVars, recorder,
                   connectResult, convItems>>
    /\ UNCHANGED proxyVars
    /\ UNCHANGED frameVars

\* A resumed conversation.updated handler that writes the list it read
\* before the await back into the client's conversation.
DecodeDoneRestoringList(t) ==
    /\ t \in tasks
    /\ t.h = "conversation.updated"
    /\ itemState' = [itemState EXCEPT ![t.v].decodes = @ + 1]
    /\ items' = t.snap
    /\ convItems' = t.snap
    /\ tasks' = tasks \ {t}
    /\ lastStep' = "conversation.updated.decode"
    /\ calls' = <<>>
    /\ UNCHANGED <<toolVars, displayVars, logVars, uiVars, clientVars, recorder,
                   player, connectResult, nUpdates>>
    /\ UNCHANGED proxyVars
    /\ UNCHANGED frameVars

\* WavRecorder.decode settles for a suspended conversation.updated handler:
\* the file is attached to the item and the list read before the await is
\* displayed.
DecodeDone(t) ==
    /\ t \in tasks
    /\ t.h = "conversation.updated"
    /\ itemState' = [itemState EXCEPT ![t.v].decodes = @ + 1]
    /\ items' = t.snap
    /\ tasks' = tasks \ {t}
    /\ lastStep' = "conversation.updated.decode"
    /\ calls' = <<>>
    /\ UNCHANGED <<toolVars, displayVars, logVars, uiVars, clientVars, recorder,
                   player, connectResult, convItems, nUpdates>>
    /\ UNCHANGED proxyVars
    /\ UNCHANGED frameVars

\* conversation.interrupted (the transport reports that the user started to
\* speak), up to `await wavStreamPlayer.interrupt()`: the handler is
\* suspended with what the call will resolve to.
ConversationInterrupted ==
    LET res == InterruptResult(player)
        t == Task("conversation.interrupted", "interrupt", res.trackId, res.offset, <<>>) IN
    /\ clientConnected
    /\ CanSuspend(t, tasks)
    /\ calls' = <<PlayerCall("interrupt", player)>>
    /\ player' = Stopped
    /\ tasks' = tasks \cup {t}
    /\ lastStep' = "conversation.interrupted"
    /\ UNCHANGED <<toolVars, displayVars, logVars, uiVars, clientVars, recorder,
                   connectResult, convVars>>
    /\ UNCHANGED proxyVars
    /\ UNCHANGED frameVars

\* A conversation.interrupted handler that cancels the response whatever the
\* interrupt returned.
InterruptedAfterInterruptAlwaysCancelling(t) ==
    /\ t \in tasks
    /\ t.h = "conversation.interrupted"
    /\ calls' = <<Call("client", "cancelResponse", "", t.v, t.n)>>
    /\ tasks' = tasks \ {t}
    /\ lastStep' = "conversation.interrupted.interrupt"
    /\ UNCHANGED <<toolVars, displayVars, logVars, uiVars, clientVars, recorder,
                   player, connectResult, convVars>>
    /\ UNCHANGED proxyVars
    /\ UNCHANGED frameVars

\* wavStreamPlayer.interrupt() of the conversation.interrupted handler t has
\* settled: `if (trackSampleOffset?.trackId)` the response is cancelled at the
\* track and offset returned.
InterruptedAfterInterrupt(t) ==
    LET res == [trackId |-> t.v, offset |-> t.n] IN
    /\ t \in tasks
    /\ t.h = "conversation.interrupted"
    /\ calls' = IF Truthy(TrackIdRead(TRUE, res))
                THEN <<Call("client", "cancelResponse", "", res.trackId, res.offset)>>
                ELSE <<>>
    /\ tasks' = tasks \ {t}
    /\ lastStep' = "conversation.interrupted.interrupt"
    /\ UNCHANGED <<toolVars, displayVars, logVars, uiVars, clientVars, recorder,
                   player, connectResult, convVars>>
    /\ UNCHANGED proxyVars
    /\ UNCHANGED frameVars

(***************************************************************************)
(* The proxy server.                                                      *)
(***************************************************************************)
Endpoints == {"/proxy", "/scrape"}

\* What the outbound fetch of an endpoint turns out to be: it rejects, or
\* the provider answers with a success or non-success status and a body
\* that is JSON or plain text (node-fetch resolves whatever the status).
UpstreamOutcomes ==
    {"fetch_rejects", "http_error_json", "http_error_text", "ok_json", "ok_text"}
UpstreamOk(u) == u \in {"ok_json", "ok_text"}
UpstreamJson(u) == u \in {"http_error_json", "ok_json"}

\* The status an endpoint answers with once its fetch has settled.  /proxy
\* parses the body as JSON and relays it, without looking at the status;
\* /scrape throws on a non-success status and relays the text otherwise.
\* Whatever is thrown inside the try is answered with 500.
ProxyStatus(endpoint, u) ==
    IF u = "fetch_rejects" THEN 500
    ELSE IF endpoint = "/proxy"
         THEN IF UpstreamJson(u) THEN 200 ELSE 500
         ELSE IF UpstreamOk(u) THEN 200 ELSE 500

\* The value of the endpoint's query parameter (req.query.q, req.query.url):
\* undefined when the request has none, the empty string for `?q=`.
QueryParams == {Undefined, "", "text"}

\* `!query`, `!url`
Missing(param) == param \in {Undefined, ""}

Response(id, endpoint, param, status, fetches, upstream) ==
    [id |-> id, endpoint |-> endpoint, param |-> param, status |-> status,
     fetches |-> fetches, upstream |-> upstream]

\* An endpoint that answers 400 only when the request has no parameter at all.
ProxyRequestMissingOnly(endpoint, param) ==
    LET id == Len(proxyLog) + Cardinality(proxyPending) + 1 IN
    /\ id <= MaxRequests
    /\ IF param # Undefined
       THEN /\ proxyPending' = proxyPending \cup
                                  {[id |-> id, endpoint |-> endpoint, param |-> param]}
            /\ UNCHANGED proxyLog
       ELSE /\ proxyLog' = Append(proxyLog, Response(id, endpoint, param, 400, 0, "none"))
            /\ UNCHANGED proxyPending
    /\ UNCHANGED <<toolVars, displayVars, logVars, uiVars, clientVars, recorder,
                   player, procVars, convVars, frameVars>>

\* A GET arrives at an endpoint with the given value of its query parameter:
\* 400 at once when it is missing or empty, otherwise the handler up to
\* `await fetch(...)`.
ProxyRequest(endpoint, param) ==
    LET id == Len(proxyLog) + Cardinality(proxyPending) + 1 IN
    /\ id <= MaxRequests
    /\ IF ~Missing(param)
       THEN /\ proxyPending' = proxyPending \cup
                                  {[id |-> id, endpoint |-> endpoint, param |-> param]}
            /\ UNCHANGED proxyLog
       ELSE /\ proxyLog' = Append(proxyLog, Response(id, endpoint, param, 400, 0, "none"))
            /\ UNCHANGED proxyPending
    /\ UNCHANGED <<toolVars, displayVars, logVars, uiVars, clientVars, recorder,
                   player, procVars, convVars, frameVars>>

\* The outbound fetch of a pending request settles: the rest of the handler.
ProxyUpstreamReply(req, u) ==
    /\ req \in proxyPending
    /\ proxyPending' = proxyPending \ {req}
    /\ proxyLog' = Append(proxyLog,
                          Response(req.id, req.endpoint, req.param,
                                   ProxyStatus(req.endpoint, u), 1, u))
    /\ UNCHANGED <<toolVars, displayVars, logVars, uiVars, clientVars, recorder,
                   player, procVars, convVars, frameVars>>

(***************************************************************************)
(* Specifications.                                                        *)
(***************************************************************************)
Connecting ==
    \/ ConnectConversation
    \/ \E ok \in BOOLEAN : ConnectAfterBegin(ok)
    \/ \E ok \in BOOLEAN : ConnectAfterPlayer(ok)
    \/ \E ok \in BOOLEAN : ConnectAfterClient(ok)
    \/ DisconnectConversation
    \/ DisconnectAfterEnd
    \/ DisconnectAfterInterrupt

Recording ==
    \/ StartRecording
    \/ StartAfterRecord
    \/ StopRecording
    \/ StopAfterPause

\* The steps that exist only once the session has been switched to
\* server_vad: the mode switch itself and connectConversation's wait for
\* wavRecorder.record(), which it starts only in that mode.
ModeSwitching ==
    \/ ChangeTurnEndType
    \/ ChangeAfterPause
    \/ ChangeAfterRecord
    \/ ConnectAfterRecord

Updating ==
    \/ \E status \in {"in_progress", "completed"}, audio \in BOOLEAN :
          ItemCreated(status, audio)
    \/ \E id \in ItemIds : ItemAudioDelta(id)
    \/ \E id \in ItemIds : ItemTextDelta(id)
    \/ \E id \in ItemIds : ItemCompleted(id)
    \/ \E t \in tasks : DecodeDone(t)

Playing == PlaybackProgress \/ PlaybackEnds

\* Tool calls and direct calls of the dispatch guard.
NextTools ==
    \/ \E name \in ToolNames, args \in ToolArgs : ToolInvoke(name, args)
    \/ \E env \in ProviderOutcomes : ToolProviderReply(env)
    \/ \E h \in HandlerOutcomes : GuardedCall(h)

SpecTools == Init /\ [][NextTools]_vars

\* The event log over connect/disconnect cycles in manual mode.
NextLog == Connecting \/ \E type \in EventTypes : RealtimeEvent(type)

SpecLog == Init /\ [][NextLog]_vars

\* The session controller: connecting, push-to-talk and mode switches.
NextSession == Connecting \/ Recording \/ ModeSwitching \/ Frame

SpecSession == Init /\ [][NextSession]_vars

\* The transcript and playback over a session in manual mode, with
\* push-to-talk.
NextConversation == Connecting \/ Updating \/ Playing \/ Recording

SpecConversation == Init /\ [][NextConversation]_vars

\* The memory store over connect/disconnect cycles: the two memory tools and
\* show_location, whose marker a disconnect resets.
NextMemory ==
    \/ Connecting
    \/ \E name \in MemoryTools, args \in ToolArgs : ToolInvoke(name, args)
    \/ \E args \in {a \in ToolArgs : a.key = Undefined /\ a.value = Undefined} :
          ToolInvoke("show_location", args)

SpecMemory == Init /\ [][NextMemory]_vars

\* Connect/disconnect cycles in which the devices and the transport open.
SessionCycle ==
    \/ ConnectConversation
    \/ ConnectAfterBegin(TRUE)
    \/ ConnectAfterPlayer(TRUE)
    \/ ConnectAfterClient(TRUE)
    \/ DisconnectConversation
    \/ DisconnectAfterEnd
    \/ DisconnectAfterInterrupt

\* The transcript over such cycles: the conversation.updated events of the
\* transport and the handlers they start.
NextTranscript == SessionCycle \/ Updating

SpecTranscript == Init /\ [][NextTranscript]_vars

\* Interruption of the assistant's audio: a session in which the assistant's
\* items receive audio, the player plays it and the transport reports that
\* the user started to speak.
NextInterruption ==
    \/ Connecting
    \/ ItemCreated("in_progress", FALSE)
    \/ \E id \in ItemIds : ItemAudioDelta(id)
    \/ Playing
    \/ ConversationInterrupted
    \/ \E t \in tasks : InterruptedAfterInterrupt(t)

SpecInterruption == Init /\ [][NextInterruption]_vars

\* The transport calls get_weather; it delivers tool calls only while it is
\* open.
WeatherCall(args) ==
    /\ clientConnected
    /\ ToolInvoke("get_weather", args)

\* get_weather calls over connect/disconnect cycles: the call, the answer of
\* the weather provider, and the session handlers.
NextWeather ==
    \/ Connecting
    \/ \E args \in ToolArgs : WeatherCall(args)
    \/ \E env \in ProviderOutcomes : ToolProviderReply(env)

SpecWeather == Init /\ [][NextWeather]_vars

\* The proxy server under concurrent requests.
NextProxy ==
    \/ \E endpoint \in Endpoints, param \in QueryParams : ProxyRequest(endpoint, param)
    \/ \E req \in proxyPending, u \in UpstreamOutcomes : ProxyUpstreamReply(req, u)

SpecProxy == Init /\ [][NextProxy]_vars

\* The proxy server when every outbound fetch settles, by resolving or by
\* rejecting: the continuation after `await fetch(...)` is then run.
SpecProxyLive ==
    /\ SpecProxy
    /\ WF_vars(\E req \in proxyPending, u \in UpstreamOutcomes : ProxyUpstreamReply(req, u))
(***************************************************************************)
(* Properties.                                                            *)
(***************************************************************************)
HasCall(on, op) == \E i \in DOMAIN calls : calls[i].on = on /\ calls[i].op = op
UpdatePending == \E t \in tasks : t.h = "conversation.updated"

\* The maximal runs of same-type events in `received`: a run starts at the
\* first position and wherever the type differs from the one before.
RunStarts == {i \in DOMAIN received : i = 1 \/ received[i] # received[i - 1]}
NumRuns == Cardinality(RunStarts)
RunStart(k) == CHOOSE i \in RunStarts : Cardinality({j \in RunStarts : j < i}) = k - 1
RunLength(k) ==
    (IF k < NumRuns THEN RunStart(k + 1) ELSE Len(received) + 1) - RunStart(k)

\* C1: the dispatch guard _onTool never rejects: whatever the handler
\* returns or throws (null and undefined included), it resolves to the
\* handler's data, {success:true} or {error: message}.
C1_GuardNeverRejects ==
    toolResult.name = AnyHandler =>
        /\ toolResult.settle = "resolved"
        /\ \/ toolResult.h.how = "return" /\ toolResult.val = toolResult.h.val
           \/ toolResult.val.shape = "success_true"
           \/ toolResult.val.shape = "error"

\* C2: none of the ten registered tool handlers throws or rejects to the
\* transport, whatever the arguments value (null and non-objects included).
C2_NoToolRejects ==
    toolResult.name \in ToolNames => toolResult.settle = "resolved"

\* C3 as claimed: every maximal run of same-type events is one log entry
\* whose counter equals the length of the run.
C3_CounterIsRunLength ==
    /\ Len(realtimeEvents) = NumRuns
    /\ \A k \in DOMAIN realtimeEvents :
          /\ realtimeEvents[k].type = received[RunStart(k)]
          /\ realtimeEvents[k].count = RunLength(k)

\* C3 as amended: every maximal run of same-type events is one log entry; its
\* counter is unset for a run of one event and otherwise counts the repeats
\* after the first event, the run length minus one.
C3_CounterIsRepeats ==
    /\ Len(realtimeEvents) = NumRuns
    /\ \A k \in DOMAIN realtimeEvents :
          /\ realtimeEvents[k].type = received[RunStart(k)]
          /\ realtimeEvents[k].count =
                IF RunLength(k) = 1 THEN NoCount ELSE RunLength(k) - 1

\* C3's case: a run of three events has been coalesced.
C3_Witness ==
    \E k \in DOMAIN realtimeEvents : RunLength(k) = 3 /\ realtimeEvents[k].count = 2

\* C4: no two adjacent log entries have the same type, and the log has as
\* many entries as the events received since the last reset have maximal
\* runs (same-type events separated by another type are not merged).
C4_EntriesAreRuns ==
    /\ \A i \in 1..(Len(realtimeEvents) - 1) :
          realtimeEvents[i].type # realtimeEvents[i + 1].type
    /\ Len(realtimeEvents) = NumRuns

\* C4's case: two events of one type, separated by an event of another type,
\* stand in two entries.
C4_Witness ==
    /\ Len(received) >= 3
    /\ received[1] = received[3]
    /\ received[1] # received[2]
    /\ Len(realtimeEvents) >= 3
    /\ realtimeEvents[1].type = realtimeEvents[3].type

\* C5: the instructions last pushed to the transport embed the current
\* memory: every change of the memory by set_memory or remove_memory is
\* followed by a new push.
C5_PushedMemoryIsCurrent == pushedMemory = Serialize(memory)

\* C6: when startRecording interrupts a playing track, it sends a
\* cancelResponse with that track's identifier and offset before it starts
\* recording.
C6_CancelSentForInterruptedTrack ==
    (lastStep = "startRecording" /\ calls[1].track # NoTrack) =>
        \E i, j \in DOMAIN calls :
            /\ i < j
            /\ calls[i] =
                 Call("client", "cancelResponse", "", calls[1].track, calls[1].offset)
            /\ calls[j] = RecorderCall("record")

\* C7: the audio of an item is decoded at most once, whatever
\* conversation.updated events arrive for it.
C7_DecodeAtMostOnce == \A id \in ItemIds : itemState[id].decodes <= 1

\* C8: once no conversation.updated handler is suspended, the displayed
\* transcript is the transport's current item list.
C8_TranscriptIsCurrent == ~UpdatePending => items = convItems

\* C9: after a connect() whose opening of the transport failed, the
\* connected flag is false.
C9_FailedConnectNotConnected ==
    (lastStep = "connectConversation.client" /\ connectResult = "TransportError")
        => ~isConnected

\* C10: when changeTurnEndType('none') is called while the recorder records,
\* the turn-detection update is sent only once the pause has completed (the
\* recorder no longer records when the update goes out), and when the switch
\* has completed no captured frame can be forwarded.
C10_PauseBeforeModeUpdate ==
    /\ \A i \in DOMAIN calls :
          calls[i] = ClientCall("updateSession", "none") => recorder # "recording"
    /\ lastStep = "changeTurnEndType.pause" =>
          /\ turnDetection = "none"
          /\ calls = <<ClientCall("updateSession", "none")>>
          /\ ~ENABLED Frame

\* C10's case: a switch to manual that found the recorder recording has
\* completed.
C10_Witness ==
    /\ lastStep = "changeTurnEndType.pause"
    /\ recorder = "paused"
    /\ HasCall("client", "updateSession")

\* C11: a connectConversation whose client.connect() succeeded goes on to
\* wavRecorder.record() exactly when the turn-detection mode is server_vad
\* at that moment; in manual mode it starts no recording.
C11_ConnectRecordsIffServerVad ==
    (lastStep = "connectConversation.client" /\ connectResult # "TransportError") =>
        /\ HasCall("client", "sendUserMessageContent")
        /\ HasCall("recorder", "record") <=> turnDetection = "server_vad"

\* C11's case: a connect in server_vad mode has started the recording.
C11_Witness ==
    /\ lastStep = "connectConversation.record"
    /\ connectResult = "ok"
    /\ turnDetection = "server_vad"
    /\ recorder = "recording"

\* C12: wavRecorder.record() is never called while the recorder is already
\* recording, whatever the interleaving of connect, push-to-talk, mode
\* switch and disconnect.
C12_RecordNeverCalledWhileRecording ==
    \A i \in DOMAIN calls : calls[i] = RecorderCall("record") => recorder # "recording"

\* C13: stopRecording first calls wavRecorder.pause() and sends nothing else
\* before the pause has completed; once it has, exactly one createResponse
\* is sent if the client is connected, none if it is not.
C13_ResponseAfterPauseIffConnected ==
    /\ lastStep = "stopRecording" => calls = <<RecorderCall("pause")>>
    /\ lastStep = "stopRecording.pause" =>
          calls = IF clientConnected
                  THEN <<ClientCall("createResponse", "")>>
                  ELSE <<>>

\* C13's case: a turn ended while the client was not connected, and no
\* response was requested.
C13_Witness ==
    /\ lastStep = "stopRecording.pause"
    /\ ~clientConnected
    /\ recorder = "paused"
    /\ calls = <<>>

\* C14: no step of connectConversation or disconnectConversation (each
\* changes the connected flag or the set of suspended handlers) changes the
\* memory store, and the store changes only in a call of set_memory or
\* remove_memory that found the store as it was and completed normally: its
\* contents survive disconnect/connect cycles.
C14_MemoryChangedOnlyByMemoryTools ==
    [][/\ (<<uiVars, clientVars, procVars>>' # <<uiVars, clientVars, procVars>>)
            => memory' = memory
       /\ memory' # memory =>
             /\ toolResult'.name \in MemoryTools
             /\ toolResult'.before = memory
             /\ toolResult'.val.shape = "ok_true"]_vars

\* C14's case: a value was stored, show_location then set a marker, a
\* disconnect reset the marker, the session was connected again, and the
\* store still holds the value.
C14_Witness ==
    /\ memory # EmptyMemory
    /\ toolResult.name = "show_location"
    /\ toolResult.val.shape = "ok_true"
    /\ marker = "null"
    /\ isConnected
    /\ connectResult = "ok"

\* C15: after a set_memory(k, v) on a store without k, removing k gives back
\* the store as it was, other keys and values untouched; and a
\* remove_memory(k) leaves the store it found with k removed.
C15_SetThenRemoveRestores ==
    /\ (/\ toolResult.name = "set_memory"
        /\ toolResult.val.shape = "ok_true"
        /\ toolResult.key \notin DOMAIN toolResult.before)
          => /\ toolResult.key \in DOMAIN memory
             /\ RemoveMemory(memory, toolResult.key) = toolResult.before
    /\ (toolResult.name = "remove_memory" /\ toolResult.val.shape = "ok_true")
          => memory = RemoveMemory(toolResult.before, toolResult.key)

\* C15's case: set_memory has just added a key to a store that held another
\* key and not this one.
C15_Witness ==
    /\ toolResult.name = "set_memory"
    /\ toolResult.val.shape = "ok_true"
    /\ toolResult.before # EmptyMemory
    /\ toolResult.key \notin DOMAIN toolResult.before
    /\ toolResult.key \in DOMAIN memory

Guarded == toolResult.name \in WrappedTools \cup {AnyHandler}

\* C16 as claimed: for a handler that completes normally the guard returns the
\* value the handler returned, whatever it is, and {success: true} when the
\* handler returned none.
C16_ReturnedValueUnchanged ==
    (Guarded /\ toolResult.h.how = "return") =>
        /\ toolResult.settle = "resolved"
        /\ toolResult.val = IF toolResult.h.val = JsUndefined
                            THEN Obj("success_true", "")
                            ELSE toolResult.h.val

\* C16 as amended: for a handler that completes normally the guard returns
\* the handler's value unchanged when it is neither null nor undefined, and
\* {success: true} when the handler returned nothing, undefined or null.
C16_NonNullValueUnchanged ==
    (Guarded /\ toolResult.h.how = "return") =>
        /\ toolResult.settle = "resolved"
        /\ toolResult.val = IF toolResult.h.val \in {JsUndefined, JsNull}
                            THEN Obj("success_true", "")
                            ELSE toolResult.h.val

\* C16's case: a handler returned null and the guard answered
\* {success: true}.
C16_Witness ==
    /\ toolResult.name = AnyHandler
    /\ toolResult.h = Return(JsNull)
    /\ toolResult.val = Obj("success_true", "")

\* C17 as claimed: when the handler completes without returning a value, the
\* result delivered is {ok: true}.
C17_DefaultPayloadIsOk ==
    (Guarded /\ toolResult.h = Return(JsUndefined)) =>
        toolResult.val.shape = "ok_true"

\* C17 as amended: when the handler completes without returning a value, the
\* result delivered is {success: true}.
C17_DefaultPayloadIsSuccess ==
    (Guarded /\ toolResult.h = Return(JsUndefined)) =>
        /\ toolResult.settle = "resolved"
        /\ toolResult.val.shape = "success_true"

\* C17's case: a handler completed without a value and the call settled.
C17_Witness ==
    /\ toolResult.name = AnyHandler
    /\ toolResult.h = Return(JsUndefined)
    /\ toolResult.settle = "resolved"

\* What counts as a provider failure for a tool: a network error, a
\* non-success answer, or a body the tool cannot read.
ProviderFailures(name) ==
    {"fetch_rejects", "http_error"}
    \cup (IF name = "webpage_scrape" THEN {} ELSE {"bad_json", "no_body", "blank"})

\* C18: a tool that calls a provider answers a provider failure with
\* {ok: false, message}: never with {error: message}, a raw payload or a
\* rejection.
C18_ProviderFailureIsOkFalse ==
    (/\ toolResult.name \in NetworkTools
     /\ toolResult.env \in ProviderFailures(toolResult.name)) =>
        /\ toolResult.settle = "resolved"
        /\ toolResult.val.shape = "ok_false"

\* C19: webpage_scrape answers a successful response whose body is empty or
\* white space only with {ok: false, 'No text content found on the webpage'},
\* a non-OK response or a failed fetch with {ok: false, 'Error scraping
\* webpage'}, and {ok: true, ...} only a successful response with a body
\* that is not blank.
C19_ScrapeResults ==
    (toolResult.name = "webpage_scrape" /\ toolResult.env # NoEnv) =>
        LET body == ScrapeBody(toolResult.env)
            isBlank == \A i \in DOMAIN body : body[i] \in Whitespace IN
        /\ (ResponseOk(toolResult.env) /\ isBlank) =>
              toolResult.val = Obj("ok_false", "No text content found on the webpage")
        /\ ~ResponseOk(toolResult.env) =>
              toolResult.val = Obj("ok_false", "Error scraping webpage")
        /\ toolResult.val.shape = "ok_true" =>
              ResponseOk(toolResult.env) /\ ~isBlank

\* C19's case: the scrape endpoint answered with white space only.
C19_Witness ==
    /\ toolResult.name = "webpage_scrape"
    /\ toolResult.env = "blank"
    /\ toolResult.val.msg = "No text content found on the webpage"

\* C20: whenever the provider wrapped by /proxy or /scrape fails (the fetch
\* rejects or the provider answers with a non-success status), the endpoint
\* answers 500, after exactly one outbound fetch.
C20_ProviderFailureIs500 ==
    \A i \in DOMAIN proxyLog :
        (proxyLog[i].upstream # "none" /\ ~UpstreamOk(proxyLog[i].upstream)) =>
            /\ proxyLog[i].status = 500
            /\ proxyLog[i].fetches = 1

\* C21: when wavRecorder.begin() fails in connectConversation because the
\* microphone cannot be opened, the handler still goes on: it proceeds to
\* open the playback device and then the transport.
C21_ConnectProceedsWithoutMicrophone ==
    (lastStep = "connectConversation.begin" /\ connectResult = "DeviceUnavailable") =>
        /\ Await("connectConversation", "player") \in tasks
        /\ HasCall("player", "connect")

\* C22: changeTurnEndType('server_vad') calls wavRecorder.record() if and
\* only if the client is connected at that moment; on a disconnected client
\* the handler only sends the session update and is finished, no record()
\* of it being left to come.
C22_SwitchRecordsIffConnected ==
    (lastStep = "changeTurnEndType" /\ toggleValue = "server_vad") =>
        /\ turnDetection = "server_vad"
        /\ HasCall("client", "updateSession")
        /\ HasCall("recorder", "record") <=> clientConnected
        /\ ~clientConnected =>
             /\ calls = <<ClientCall("updateSession", "server_vad")>>
             /\ \A t \in tasks : ~(t.h = "changeTurnEndType" /\ t.pc = "record")
             /\ ~canPushToTalk
C22_Witness ==
    /\ lastStep = "changeTurnEndType"
    /\ toggleValue = "server_vad"
    /\ ~clientConnected
    /\ calls = <<ClientCall("updateSession", "server_vad")>>
    /\ recorder # "recording"

\* C23: the frames given to client.appendInputAudio are, in capture order,
\* exactly the frames delivered while the client was connected: a frame
\* delivered on a disconnected client is in no later call.
C23_ForwardedAreConnectedFramesInOrder ==
    /\ \A i \in DOMAIN forwarded :
         /\ forwarded[i] \in DOMAIN frames
         /\ frames[forwarded[i]]
    /\ \A i, j \in DOMAIN forwarded : i < j => forwarded[i] < forwarded[j]
    /\ \A n \in DOMAIN frames : frames[n] => \E i \in DOMAIN forwarded : forwarded[i] = n
    /\ lastStep = "frame" =>
         HasCall("client", "appendInputAudio") <=> frames[Len(frames)]
C23_Witness ==
    /\ frames = <<FALSE, TRUE>>
    /\ forwarded = <<2>>
    /\ lastStep = "frame"

\* C24: a conversation.updated event that carries an audio delta gives that
\* delta to the player under the item's id in the step in which it arrives,
\* whether or not earlier handlers are suspended in decoding, which stay
\* suspended; the handler leaves the transport's item list as it is and
\* displays it.
C24_DeltaEnqueuedOnArrival ==
    [][\A id \in ItemIds :
          ItemAudioDelta(id) =>
             /\ calls' = <<Call("player", "add16BitPCM", "", id, 0)>>
             /\ tasks' = tasks
             /\ convItems' = convItems
             /\ items' = convItems]_vars
C24_Witness ==
    /\ lastStep = "conversation.updated"
    /\ \E t \in tasks : t.h = "conversation.updated"
    /\ \E id \in ItemIds :
         /\ calls = <<Call("player", "add16BitPCM", "", id, 0)>>
         /\ itemState[id].audio
         /\ items = convItems

\* C25: a step of the conversation.updated handler keeps every item of the
\* client's list at its position with its id and its role, and the list
\* grows only by the item the transport has just created; the step that
\* resumes after the decode leaves the list as it is and changes nothing of
\* any item but the decoded file it attaches to one.
C25_HandlerOnlyAttachesFile ==
    [][(/\ lastStep' \in {"conversation.updated", "conversation.updated.decode"}
        /\ <<tasks, nUpdates>>' # <<tasks, nUpdates>>) =>
          /\ \A i \in DOMAIN convItems :
               i \in DOMAIN convItems' /\ convItems'[i] = convItems[i]
          /\ Len(convItems') - Len(convItems) = Cardinality(Allocated') - Cardinality(Allocated)
          /\ \A id \in ItemIds :
               itemState[id].status # "none" => itemState'[id].role = itemState[id].role
          /\ lastStep' = "conversation.updated.decode" =>
               /\ convItems' = convItems
               /\ \E id \in ItemIds :
                    itemState' = [itemState EXCEPT ![id].decodes = @ + 1]]_vars
C25_Witness ==
    /\ lastStep = "conversation.updated.decode"
    /\ Len(convItems) = 2
    /\ items = <<convItems[1]>>
    /\ itemState[convItems[1]].decodes = 1
    /\ itemState[convItems[1]].role = "user"
    /\ itemState[convItems[2]].role = "assistant"

\* C26: when disconnectConversation has completed, and no connect has been
\* started meanwhile, the event log and the displayed transcript are empty,
\* the marker is null, the coordinates are the default ones, the transport
\* is closed, the recorder has ended and the player plays nothing.
C26_DisconnectLeavesSessionReset ==
    (lastStep = "disconnectConversation.interrupt" /\ ~isConnected) =>
        /\ realtimeEvents = <<>>
        /\ items = <<>>
        /\ marker = "null"
        /\ coords = "default"
        /\ ~clientConnected
        /\ recorder = "ended"
        /\ player = Stopped

\* The greetings among the calls of the last step.
Greetings == {i \in DOMAIN calls : calls[i] = ClientCall("sendUserMessageContent", "")}

\* C27: the step that starts connectConversation empties the event log and
\* calls neither client.connect() nor the greeting; client.connect() is
\* called in a later step of the handler only; the greeting is sent in the
\* step in which client.connect() has settled, once, if and only if the
\* transport is open then, and in no other step.
C27_LogEmptiedThenOneGreeting ==
    [][/\ (~isConnected /\ isConnected') =>
             /\ realtimeEvents' = <<>>
             /\ lastStep' = "connectConversation"
             /\ calls' = <<RecorderCall("begin")>>
       /\ HasCall("client", "connect")' => lastStep' = "connectConversation.player"
       /\ lastStep' = "connectConversation.client" =>
             Cardinality(Greetings') = IF clientConnected' THEN 1 ELSE 0
       /\ lastStep' # "connectConversation.client" => Greetings' = {}]_vars
C27_Witness ==
    /\ lastStep = "connectConversation.client"
    /\ connectResult = "ok"
    /\ calls = <<ClientCall("sendUserMessageContent", "")>>
    /\ clientConnected
    /\ realtimeEvents # <<>>

\* C28: every log entry is the first event of its run (the event's identity
\* stands for its timestamp, source and payload), so the entries stand in
\* the arrival order of the first events of their runs; and a realtime.event
\* step leaves every entry before the last one as it was and at its place.
C28_EntryIsFirstEventOfRun ==
    [][/\ \A k \in DOMAIN realtimeEvents' :
             /\ realtimeEvents'[k].id = RunStart(k)'
             /\ realtimeEvents'[k].type = received'[RunStart(k)']
       /\ \A i, j \in DOMAIN realtimeEvents' :
             i < j => realtimeEvents'[i].id < realtimeEvents'[j].id
       /\ Len(received') = Len(received) + 1 =>
             /\ Len(realtimeEvents') >= Len(realtimeEvents)
             /\ \A i \in 1..(Len(realtimeEvents) - 1) : realtimeEvents'[i] = realtimeEvents[i]
             /\ Len(realtimeEvents) > 0 =>
                  /\ realtimeEvents'[Len(realtimeEvents)].id = realtimeEvents[Len(realtimeEvents)].id
                  /\ realtimeEvents'[Len(realtimeEvents)].type = realtimeEvents[Len(realtimeEvents)].type]_vars
C28_Witness ==
    \E k \in DOMAIN realtimeEvents :
        /\ k < Len(realtimeEvents)
        /\ RunLength(k) >= 2
        /\ realtimeEvents[k].id = RunStart(k)
        /\ RunLength(k + 1) >= 2
        /\ realtimeEvents[k + 1].id = RunStart(k) + RunLength(k)

\* C29: the conversation.interrupted handler first interrupts the player,
\* and when the interrupt has settled it sends cancelResponse, with the
\* track and offset the interrupt returned, if and only if a track was
\* playing; it makes no other call.
C29_CancelIffTrackWasPlaying ==
    [][/\ (lastStep' = "conversation.interrupted" /\ tasks' # tasks) =>
             /\ calls' = <<PlayerCall("interrupt", player)>>
             /\ \E t \in tasks' \ tasks :
                   /\ t.h = "conversation.interrupted"
                   /\ t.v = player.track
                   /\ t.n = player.offset
       /\ \A t \in tasks \ tasks' :
             t.h = "conversation.interrupted" =>
                calls' = IF t.v # NoTrack
                         THEN <<Call("client", "cancelResponse", "", t.v, t.n)>>
                         ELSE <<>>]_vars
C29_Witness ==
    /\ lastStep = "conversation.interrupted.interrupt"
    /\ \E id \in ItemIds : calls = <<Call("client", "cancelResponse", "", id, 1)>>
    /\ player = Stopped

\* C30: every request that has arrived at /proxy or /scrape either still
\* waits for its outbound fetch or has been answered exactly once; a request
\* whose query parameter is missing or empty is answered 400 without any
\* fetch and never waits; every other answer is a 200 or a 500 after one
\* fetch; and, the fetches settling, no request waits for ever.
C30_OneResponsePerRequest ==
    /\ [](/\ \A id \in 1..(Len(proxyLog) + Cardinality(proxyPending)) :
                Cardinality({i \in DOMAIN proxyLog : proxyLog[i].id = id})
                   + Cardinality({r \in proxyPending : r.id = id}) = 1
          /\ \A r \in proxyPending : r.param # Undefined /\ r.param # ""
          /\ \A i \in DOMAIN proxyLog :
                IF proxyLog[i].param = Undefined \/ proxyLog[i].param = ""
                THEN proxyLog[i].status = 400 /\ proxyLog[i].fetches = 0
                ELSE proxyLog[i].status \in {200, 500} /\ proxyLog[i].fetches = 1)
    /\ (proxyPending # {}) ~> (proxyPending = {})
C30_Witness ==
    /\ proxyPending = {}
    /\ \E i, j, k \in DOMAIN proxyLog :
          /\ proxyLog[i].param = "" /\ proxyLog[i].status = 400
          /\ proxyLog[j].param = "text" /\ proxyLog[j].status = 200
          /\ proxyLog[k].param = "text" /\ proxyLog[k].status = 500

\* C31: once disconnectConversation has completed, with the transport
\* closed and no connect started or still running, the marker is null and
\* the coordinates are the default ones, whatever get_weather call was in
\* flight at the disconnect and has completed since.
C31_MarkerStaysResetAfterDisconnect ==
    (/\ lastStep = "disconnectConversation.interrupt"
     /\ ~isConnected
     /\ ~clientConnected
     /\ \A t \in tasks : t.h # "connectConversation") =>
        /\ marker = "null"
        /\ coords = "default"

\* C32: whenever no changeTurnEndType is suspended at an await, push-to-talk
\* is available exactly when the turn-detection mode last sent to the
\* transport is none.
C32_PushToTalkIffManualMode ==
    (\A t \in tasks : t.h # "changeTurnEndType") =>
        (canPushToTalk <=> turnDetection = "none")

=============================================================================
